---- MODULE Spec2Model ----
(***************************************************************************)
(* dupdirfinder (src/src/main.rs): crawl_directory fingerprints a tree     *)
(* bottom-up into a map from fingerprint to directory records, and        *)
(* list_duplicates reduces that map to the duplicate groups to report.    *)
(*                                                                         *)
(* A directory is a node 1..Len(parent); node d > 1 lies in parent[d] and  *)
(* nodes are numbered in pre-order, which is the order WalkDir lists them. *)
(* A path is the node it names (a directory) or [dir, i] (the i-th file of *)
(* a directory).  Blake2b is modelled as an injective function of its      *)
(* input: a fingerprint is the input it was computed from.                 *)
(***************************************************************************)
EXTENDS Integers, Sequences, FiniteSets, TLC

\* Bounds of the explored inputs.
MaxDirs == 5        \* directories of a tree walked from one root
MaxSharedDirs == 3  \* directories of a tree with shared identities or unreadable entries
MaxRootDirs == 3    \* directories of a tree walked from several roots
MaxRoots == 2       \* root arguments on the command line
MaxCopyDirs == 3    \* directories of a subtree that occurs several times under the root
MaxCopies == 2      \* occurrences of that subtree
MaxMinSize == 2     \* the -m argument ranges over 0..MaxMinSize

\* default_value("1") of the minsize argument
DefaultMinSize == 1

VARIABLES
    \* the file system
    parent,      \* parent[d]: the directory holding directory d (0 for node 1)
    files,       \* files[d]: the non-directory entries of d, in listing order
    ident,       \* ident[d] = <<device, inode>> of directory d
    unreadable,  \* entries whose enumeration yields Err
    \* main
    roots,                 \* the root arguments
    min_size,              \* minsize
    pc,                    \* where main is
    root_idx,              \* the root the for loop of main is at
    inodes,                \* HashSet<u64> shared by all roots
    map,                   \* HashMap<FileHash, Vec<Rc<DirectoryData>>> of this root
    output,                \* what main printed: one list of groups per root
    \* crawl_directory
    stack,                 \* the call frames of crawl_directory, outermost first
    \* list_duplicates
    vect_of_key_and_entries,
    idx,                   \* position of the for loop over vect_of_key_and_entries
    already_found_hashes,
    result,
    \* history
    kept,        \* paths retained by the enumeration loops of this root's walk
                 \* ([dir, i] for a file, [dir, 0] for a sub-directory)
    guard_log,   \* the calls of check_inode so far: [node, id, ret]
    walks,       \* the directories crawl_directory was called on, in order
    enum_errors, \* Err entries met so far
    meta_failed  \* file paths whose fs::metadata returned Err

fsvars == <<parent, files, ident, unreadable>>
mainvars == <<roots, min_size, pc, root_idx, inodes, map, output>>
listvars == <<vect_of_key_and_entries, idx, already_found_hashes, result>>
histvars == <<kept, guard_log, walks, enum_errors, meta_failed>>
vars == <<fsvars, mainvars, stack, listvars, histvars>>

----------------------------------------------------------------------------
\* Helpers on sequences and sets.

RECURSIVE SeqOfSet(_)
SeqOfSet(S) ==
    IF S = {} THEN <<>>
    ELSE LET m == CHOOSE x \in S : \A y \in S : x <= y
         IN <<m>> \o SeqOfSet(S \ {m})

Range(s) == {s[i] : i \in 1..Len(s)}

EmptyMap == [h \in {} |-> <<>>]

\* map.get(k) with a default
Lookup(m, k, default) == IF k \in DOMAIN m THEN m[k] ELSE default

----------------------------------------------------------------------------
\* The file system as WalkDir and fs::metadata show it.

Nodes == 1..Len(parent)

Children(d) == {c \in Nodes : parent[c] = d}

FileEntry(d, i) == [kind |-> files[d][i].kind, node |-> d, i |-> i]

DirEntryOf(c) == [kind |-> "dir", node |-> c, i |-> 0]

FilePath(d, i) == [dir |-> d, i |-> i]

\* WalkDir::new(&root).follow_links(false).max_depth(1): the root itself, then
\* its immediate entries.
WalkDir(root) ==
    <<DirEntryOf(root)>>
    \o [k \in 1..Cardinality(Children(root)) |-> DirEntryOf(SeqOfSet(Children(root))[k])]
    \o [i \in 1..Len(files[root]) |-> FileEntry(root, i)]

\* dir_entry.ino()
Ino(entry) == ident[entry.node][2]

----------------------------------------------------------------------------
\* Fingerprints.

\* FileHash of hash_file_metadata: digest(file_name ++ size as u64 LE)
hash_file_metadata(name, size) ==
    [kind |-> "file", name |-> name, size |-> size, children |-> <<>>]

\* DirectoryData::hash: digest over the children hashes in order
hash(dir_data) ==
    [kind |-> "dir", name |-> "", size |-> 0, children |-> dir_data.children_hashes]

----------------------------------------------------------------------------
\* crawl_directory

\* check_inode (unix): set.insert(entry.ino())
check_inode(set, entry) ==
    [ret |-> Ino(entry) \notin set, set |-> set \cup {Ino(entry)}]

\* One iteration of the enumeration loop.
ScanEntry(root, e, acc) ==
    IF e \in unreadable
    THEN [acc EXCEPT !.errors = @ + 1]
    ELSE IF e.kind = "dir" /\ e.node = root
    THEN acc
    ELSE IF e.kind = "file"
    THEN [acc EXCEPT !.files_paths = Append(@, FilePath(e.node, e.i))]
    ELSE IF e.kind = "dir"
    THEN LET r == check_inode(acc.inodes, e)
         IN [acc EXCEPT !.inodes = r.set,
                        !.subdir_paths = IF r.ret THEN Append(@, e.node) ELSE @,
                        !.log = Append(@, [node |-> e.node, id |-> ident[e.node],
                                           ret |-> r.ret])]
    ELSE acc

RECURSIVE ScanEntries(_, _, _)
ScanEntries(root, entries, acc) ==
    IF entries = <<>> THEN acc
    ELSE ScanEntries(root, Tail(entries), ScanEntry(root, Head(entries), acc))

NewDirData(root, files_paths) ==
    [path |-> root, children_hashes |-> <<>>,
     descendant_number |-> Len(files_paths), disk_size |-> 0]

\* AddSubdir without the sub-directory itself among the descendants.
AddSubdirUncounted(dir_data, subdir_data) ==
    [dir_data EXCEPT !.children_hashes = Append(@, hash(subdir_data)),
                     !.descendant_number = @ + subdir_data.descendant_number,
                     !.disk_size = @ + subdir_data.disk_size]

\* What the parent does with the record its recursive call returned.
AddSubdir(dir_data, subdir_data) ==
    [dir_data EXCEPT !.children_hashes = Append(@, hash(subdir_data)),
                     !.descendant_number = @ + 1 + subdir_data.descendant_number,
                     !.disk_size = @ + subdir_data.disk_size]

\* fs::metadata(path): Err for the paths in failing, else the file's length
Metadata(file_path, failing) ==
    IF file_path \in failing THEN [ok |-> FALSE, len |-> 0]
    ELSE [ok |-> TRUE, len |-> files[file_path.dir][file_path.i].size]

\* AddFile leaving out a file whose metadata cannot be read.
AddFileSkipping(st, file_path, failing) ==
    LET md == Metadata(file_path, failing)
    IN IF ~md.ok
       THEN st
       ELSE [st EXCEPT !.dir_data.children_hashes =
                          Append(@, hash_file_metadata(
                                        files[file_path.dir][file_path.i].name, md.len)),
                       !.dir_data.disk_size = @ + md.len]

\* One iteration of the loop over files_paths; expect() panics on Err, in
\* hash_file_metadata and in the loop body alike.
AddFile(st, file_path, failing) ==
    LET md == Metadata(file_path, failing)
    IN IF st.panicked \/ ~md.ok
       THEN [st EXCEPT !.panicked = TRUE]
       ELSE [st EXCEPT !.dir_data.children_hashes =
                          Append(@, hash_file_metadata(
                                        files[file_path.dir][file_path.i].name, md.len)),
                       !.dir_data.disk_size = @ + md.len]

RECURSIVE AddFiles(_, _, _)
AddFiles(st, files_paths, failing) ==
    IF files_paths = <<>> THEN st
    ELSE AddFiles(AddFile(st, Head(files_paths), failing), Tail(files_paths), failing)

\* map.entry(hash).or_insert(Vec::new()).push(rc)
MapInsert(m, rc) ==
    LET k == hash(rc)
    IN [h \in DOMAIN m \cup {k} |->
            IF h = k THEN Append(Lookup(m, k, <<>>), rc) ELSE m[h]]

NewFrame(root) ==
    [root |-> root, phase |-> "enumerate", subdir_paths |-> <<>>,
     files_paths |-> <<>>, dir_data |-> NewDirData(root, <<>>)]

Top == stack[Len(stack)]

SetTop(frame) == [stack EXCEPT ![Len(stack)] = frame]

\* main: the for loop takes the next root and calls crawl_directory on it.
StartRoot ==
    /\ pc = "main"
    /\ root_idx <= Len(roots)
    /\ pc' = "crawl"
    /\ map' = EmptyMap
    /\ stack' = <<NewFrame(roots[root_idx])>>
    /\ kept' = {}
    /\ walks' = Append(walks, roots[root_idx])
    /\ UNCHANGED <<fsvars, roots, min_size, root_idx, inodes, output, listvars,
                   guard_log, enum_errors, meta_failed>>

\* The enumeration loop and the creation of dir_data.
Enumerate ==
    /\ pc = "crawl"
    /\ Top.phase = "enumerate"
    /\ LET acc == ScanEntries(Top.root, WalkDir(Top.root),
                    [inodes |-> inodes, subdir_paths |-> <<>>, files_paths |-> <<>>,
                     log |-> <<>>, errors |-> 0])
       IN /\ inodes' = acc.inodes
          /\ stack' = SetTop([Top EXCEPT !.phase = "subdirs",
                                         !.subdir_paths = acc.subdir_paths,
                                         !.files_paths = acc.files_paths,
                                         !.dir_data = NewDirData(Top.root, acc.files_paths)])
          /\ guard_log' = guard_log \o acc.log
          /\ enum_errors' = enum_errors + acc.errors
          /\ kept' = kept \cup {FilePath(c, 0) : c \in Range(acc.subdir_paths)}
                         \cup Range(acc.files_paths)
    /\ UNCHANGED <<fsvars, roots, min_size, pc, root_idx, map, output, listvars, walks,
                   meta_failed>>

\* The loop over subdir_paths calls crawl_directory on the next sub-directory.
Descend ==
    /\ pc = "crawl"
    /\ Top.phase = "subdirs"
    /\ Top.subdir_paths # <<>>
    /\ stack' = Append(SetTop([Top EXCEPT !.subdir_paths = Tail(@)]),
                       NewFrame(Head(Top.subdir_paths)))
    /\ walks' = Append(walks, Head(Top.subdir_paths))
    /\ UNCHANGED <<fsvars, mainvars, listvars, kept, guard_log, enum_errors, meta_failed>>

\* The loop over files_paths.  The metadata of a file may have become
\* unavailable since the directory was listed; a panic ends the process.
HashFiles ==
    /\ pc = "crawl"
    /\ Top.phase = "subdirs"
    /\ Top.subdir_paths = <<>>
    /\ \E failing \in {{}} \cup {{f} : f \in Range(Top.files_paths)} :
          LET st == AddFiles([panicked |-> FALSE, dir_data |-> Top.dir_data],
                             Top.files_paths, failing)
          IN /\ meta_failed' = meta_failed \cup failing
             /\ IF st.panicked
                THEN /\ pc' = "aborted"
                     /\ stack' = stack
                ELSE /\ pc' = pc
                     /\ stack' = SetTop([Top EXCEPT !.phase = "insert",
                                                    !.files_paths = <<>>,
                                                    !.dir_data = st.dir_data])
    /\ UNCHANGED <<fsvars, roots, min_size, root_idx, inodes, map, output, listvars,
                   kept, guard_log, walks, enum_errors>>

\* The record goes into the map and back to the caller: the parent's loop
\* body, or main, which calls list_duplicates.
Return ==
    /\ pc = "crawl"
    /\ Top.phase = "insert"
    /\ map' = MapInsert(map, Top.dir_data)
    /\ IF Len(stack) = 1
       THEN /\ stack' = <<>>
            /\ pc' = "list_duplicates"
       ELSE /\ stack' = [SubSeq(stack, 1, Len(stack) - 1) EXCEPT ![Len(stack) - 1].dir_data =
                             AddSubdir(@, Top.dir_data)]
            /\ pc' = pc
    /\ UNCHANGED <<fsvars, roots, min_size, root_idx, inodes, output, listvars, histvars>>

----------------------------------------------------------------------------
\* list_duplicates

Entries(m) == {[key |-> h, value |-> m[h]] : h \in DOMAIN m}

\* MayPrecede with the operands of cmp exchanged: an ascending sort.
MayPrecedeAscending(a, b) == a.value[1].descendant_number <= b.value[1].descendant_number

\* The comparison of sort_unstable_by: Less or Equal when a may stand before b.
MayPrecede(a, b) == b.value[1].descendant_number <= a.value[1].descendant_number

\* Every order map.into_iter() followed by sort_unstable_by can produce.
RECURSIVE SortedOrders(_)
SortedOrders(S) ==
    IF S = {} THEN {<<>>}
    ELSE UNION {{<<a>> \o rest : rest \in SortedOrders(S \ {a})} :
                    a \in {x \in S : \A y \in S : MayPrecede(x, y)}}

\* Prime counting each child once, whatever the length of the bucket.
RECURSIVE PrimeOnce(_, _, _)
PrimeOnce(found, children_hashes, n) ==
    IF children_hashes = <<>> THEN found
    ELSE LET c == Head(children_hashes)
             f == [h \in DOMAIN found \cup {c} |->
                       IF h = c THEN Lookup(found, c, 0) + 1 ELSE found[h]]
         IN PrimeOnce(f, Tail(children_hashes), n)

\* for children_hash in first.children_hashes { *entry.or_insert(0) += n }
RECURSIVE Prime(_, _, _)
Prime(found, children_hashes, n) ==
    IF children_hashes = <<>> THEN found
    ELSE LET c == Head(children_hashes)
             f == [h \in DOMAIN found \cup {c} |->
                       IF h = c THEN Lookup(found, c, 0) + n ELSE found[h]]
         IN Prime(f, Tail(children_hashes), n)

\* add_to_result after the Occupied test
NotAlreadyFound(found, key, value) ==
    ~(key \in DOMAIN found /\ Len(value) = found[key])

\* Reportable with <= for <.
ReportableAbove(first_dir_data, minsize) ==
    ~(first_dir_data.descendant_number = 0 \/ first_dir_data.disk_size <= minsize)

\* Reportable without the test for an empty directory.
ReportableEmpty(first_dir_data, minsize) ==
    ~(first_dir_data.disk_size < minsize)

\* add_to_result after the test on the first record
Reportable(first_dir_data, minsize) ==
    ~(first_dir_data.descendant_number = 0 \/ first_dir_data.disk_size < minsize)

\* ProcessEntry without the continue: a bucket of one record primes too.
ProcessEntryPriming(entry, st, minsize) ==
    LET first_dir_data == entry.value[1]
        add_to_result == /\ Len(entry.value) # 1
                         /\ NotAlreadyFound(st.found, entry.key, entry.value)
                         /\ Reportable(first_dir_data, minsize)
    IN [found |-> Prime(st.found, first_dir_data.children_hashes, Len(entry.value)),
        result |-> IF add_to_result THEN Append(st.result, entry.value)
                   ELSE st.result]

\* One iteration of the for loop over vect_of_key_and_entries.
ProcessEntry(entry, st, minsize) ==
    IF Len(entry.value) = 1 THEN st
    ELSE LET first_dir_data == entry.value[1]
             add_to_result == /\ NotAlreadyFound(st.found, entry.key, entry.value)
                              /\ Reportable(first_dir_data, minsize)
         IN [found |-> Prime(st.found, first_dir_data.children_hashes, Len(entry.value)),
             result |-> IF add_to_result THEN Append(st.result, entry.value)
                        ELSE st.result]

\* The map is moved into the vector and sorted.
SortEntries ==
    /\ pc = "list_duplicates"
    /\ vect_of_key_and_entries' \in SortedOrders(Entries(map))
    /\ idx' = 1
    /\ already_found_hashes' = EmptyMap
    /\ result' = <<>>
    /\ map' = EmptyMap
    /\ pc' = "reduce"
    /\ UNCHANGED <<fsvars, roots, min_size, root_idx, inodes, output, stack, histvars>>

ReduceEntry ==
    /\ pc = "reduce"
    /\ idx <= Len(vect_of_key_and_entries)
    /\ LET st == ProcessEntry(vect_of_key_and_entries[idx],
                              [found |-> already_found_hashes, result |-> result],
                              min_size)
       IN /\ already_found_hashes' = st.found
          /\ result' = st.result
    /\ idx' = idx + 1
    /\ UNCHANGED <<fsvars, mainvars, stack, vect_of_key_and_entries, histvars>>

\* list_duplicates returns and main prints the groups.
PrintDuplicates ==
    /\ pc = "reduce"
    /\ idx > Len(vect_of_key_and_entries)
    /\ output' = Append(output, result)
    /\ root_idx' = root_idx + 1
    /\ pc' = "main"
    /\ vect_of_key_and_entries' = <<>>
    /\ idx' = 1
    /\ already_found_hashes' = EmptyMap
    /\ result' = <<>>
    /\ UNCHANGED <<fsvars, roots, min_size, inodes, map, stack, histvars>>

\* main returns after the last root.
Exit ==
    /\ pc = "main"
    /\ root_idx > Len(roots)
    /\ pc' = "done"
    /\ UNCHANGED <<fsvars, roots, min_size, root_idx, inodes, map, output, stack,
                   listvars, histvars>>

----------------------------------------------------------------------------
\* The inputs explored.

RegularFile(name, size) == [kind |-> "file", name |-> name, size |-> size]

Symlink(name) == [kind |-> "symlink", name |-> name, size |-> 0]

\* What a directory may hold besides sub-directories.
Contents == {<<>>, <<RegularFile("f", 1)>>}

SharedContents == {<<>>, <<RegularFile("f", 1)>>, <<Symlink("l"), RegularFile("g", 2)>>}

RECURSIVE Ancestors(_, _)
Ancestors(par, d) == IF d <= 1 THEN {} ELSE {par[d]} \cup Ancestors(par, par[d])

\* The trees of n directories, numbered in pre-order.
RECURSIVE Trees(_)
Trees(n) ==
    IF n = 1 THEN {<<0>>}
    ELSE {Append(par, p) : par \in Trees(n - 1), p \in 1..(n - 1)} \cap
         {par \in [1..n -> 0..(n - 1)] :
              par[n] \in {n - 1} \cup Ancestors(par, n - 1)}

\* The root holding k copies of the tree sub, in pre-order.
CopiesParent(sub, k) ==
    [d \in 1..(1 + k * Len(sub)) |->
        IF d = 1 THEN 0
        ELSE LET j == (d - 2) \div Len(sub)
                 local == ((d - 2) % Len(sub)) + 1
             IN IF local = 1 THEN 1 ELSE sub[local] + 1 + j * Len(sub)]

CopiesFiles(rootfiles, subfiles, k) ==
    [d \in 1..(1 + k * Len(subfiles)) |->
        IF d = 1 THEN rootfiles ELSE subfiles[((d - 2) % Len(subfiles)) + 1]]

OwnIdent(n) == [d \in 1..n |-> <<1, d>>]

\* b is a second path to directory a (a bind mount), or a directory of
\* another device with the inode number of a.
Aliased(n) ==
    {OwnIdent(n)} \cup
    {[OwnIdent(n) EXCEPT ![b] = <<dev, a>>] : <<a, b, dev>> \in
         {t \in (1..n) \X (1..n) \X (1..2) : t[1] < t[2]}}

\* Two paths to one directory show the same contents.
Consistent(par, fl, id) ==
    \A a, b \in 1..Len(par) :
        a # b /\ id[a] = id[b] =>
            /\ fl[a] = fl[b]
            /\ \A c \in 1..Len(par) : par[c] \notin {a, b}

RootLists(n) == UNION {[1..k -> 1..n] : k \in 1..MaxRoots}

AllEntries(par, fl) ==
    {[kind |-> "dir", node |-> c, i |-> 0] : c \in 2..Len(par)} \cup
    UNION {{[kind |-> fl[d][i].kind, node |-> d, i |-> i] : i \in 1..Len(fl[d])} :
               d \in 1..Len(par)}

InitProgram ==
    /\ pc = "main"
    /\ root_idx = 1
    /\ inodes = {}
    /\ map = EmptyMap
    /\ output = <<>>
    /\ stack = <<>>
    /\ vect_of_key_and_entries = <<>>
    /\ idx = 1
    /\ already_found_hashes = EmptyMap
    /\ result = <<>>
    /\ kept = {}
    /\ guard_log = <<>>
    /\ walks = <<>>
    /\ enum_errors = 0
    /\ meta_failed = {}

\* One root, every directory its own inode, every entry listed.
InitTree ==
    /\ \E n \in 1..MaxDirs :
          /\ parent \in Trees(n)
          /\ files \in [1..n -> Contents]
          /\ ident = OwnIdent(n)
    /\ unreadable = {}
    /\ roots = <<1>>
    /\ min_size \in 0..MaxMinSize

\* One root; two paths may share an inode number, one entry may fail to list.
InitShared ==
    /\ \E n \in 1..MaxSharedDirs :
          /\ parent \in Trees(n)
          /\ files \in [1..n -> SharedContents]
          /\ ident \in Aliased(n)
    /\ Consistent(parent, files, ident)
    /\ unreadable \in {{}} \cup {{e} : e \in AllEntries(parent, files)}
    /\ ident = OwnIdent(Len(parent)) \/ unreadable = {}
    /\ roots = <<1>>
    /\ min_size = DefaultMinSize

\* Several roots, each any directory of the tree.
InitRoots ==
    /\ \E n \in 1..MaxRootDirs :
          /\ parent \in Trees(n)
          /\ files \in [1..n -> Contents]
          /\ ident = OwnIdent(n)
          /\ roots \in RootLists(n)
    /\ unreadable = {}
    /\ min_size = DefaultMinSize

\* One root holding several copies of one subtree.
InitCopies ==
    /\ \E m \in 1..MaxCopyDirs, k \in 2..MaxCopies :
          \E sub \in Trees(m), subfiles \in [1..m -> Contents], rootfiles \in Contents :
              /\ parent = CopiesParent(sub, k)
              /\ files = CopiesFiles(rootfiles, subfiles, k)
              /\ ident = OwnIdent(1 + k * m)
    /\ unreadable = {}
    /\ roots = <<1>>
    /\ min_size \in 0..MaxMinSize

Init == InitProgram /\ (InitTree \/ InitShared \/ InitRoots \/ InitCopies)

Next ==
    \/ StartRoot
    \/ Enumerate
    \/ Descend
    \/ HashFiles
    \/ Return
    \/ SortEntries
    \/ ReduceEntry
    \/ PrintDuplicates
    \/ Exit

Spec == Init /\ [][Next]_vars

----------------------------------------------------------------------------
\* What the claims speak of, stated on the file system and on the records
\* rather than on the accounting of list_duplicates.

\* The buckets list_duplicates was given.
Buckets == {vect_of_key_and_entries[i].value : i \in 1..Len(vect_of_key_and_entries)}

\* Every record crawl_directory returned for the root being processed.
Records ==
    UNION {Range(map[h]) : h \in DOMAIN map} \cup UNION {Range(v) : v \in Buckets}

ReduceDone == pc = "reduce" /\ idx > Len(vect_of_key_and_entries)

Reported(value) == \E i \in 1..Len(result) : result[i] = value

BucketOf(node) == CHOOSE v \in Buckets : \E r \in Range(v) : r.path = node

\* The record's parent directory was walked too and shares its fingerprint
\* with another directory.
HasDupParent(rec) ==
    /\ rec.path # roots[root_idx]
    /\ Len(BucketOf(parent[rec.path])) >= 2

ProperDescendant(a, b) == b \in Ancestors(parent, a)

RECURSIVE SumOver(_, _)
SumOver(S, f) ==
    IF S = {} THEN 0
    ELSE LET x == CHOOSE y \in S : TRUE
         IN f[x] + SumOver(S \ {x}, f)

KeptFiles(d) == {k \in kept : k.dir = d /\ k.i > 0}

KeptSubdirs(d) == {c \in Children(d) : FilePath(c, 0) \in kept}

\* Files and directories beneath d through retained sub-directories.
RECURSIVE ExpectedDescendants(_)
ExpectedDescendants(d) ==
    Cardinality(KeptFiles(d))
    + SumOver(KeptSubdirs(d), [c \in KeptSubdirs(d) |-> 1 + ExpectedDescendants(c)])

\* Bytes of the files beneath d through retained sub-directories.
RECURSIVE ExpectedSize(_)
ExpectedSize(d) ==
    SumOver(KeptFiles(d), [k \in KeptFiles(d) |-> files[k.dir][k.i].size])
    + SumOver(KeptSubdirs(d), [c \in KeptSubdirs(d) |-> ExpectedSize(c)])

\* Occurrences of h in a sequence of fingerprints.
Occurrences(h, hashes) == Cardinality({i \in 1..Len(hashes) : hashes[i] = h})

----------------------------------------------------------------------------
\* C1: directories A and B share a fingerprint, are non-empty, reach min_size
\* and have no duplicated parent, and A/x and B/x are the only directories
\* with x's fingerprint.
C1Case(value, a, b, xv) ==
    /\ a \in Range(value) /\ b \in Range(value) /\ a.path # b.path
    /\ value[1].descendant_number > 0
    /\ value[1].disk_size >= min_size
    /\ ~HasDupParent(a) /\ ~HasDupParent(b)
    /\ Len(xv) = 2
    /\ {parent[r.path] : r \in Range(xv)} = {a.path, b.path}

\* C1 (maximality): when list_duplicates returns, in the case C1Case the
\* group of A and B is in the result and the bucket of A/x and B/x is not;
\* and no member of a returned group lies beneath a member of another
\* returned group with the same number of members.
C1_Maximality ==
    ReduceDone =>
        /\ \A value \in Buckets, xv \in Buckets :
              \A a \in Range(value), b \in Range(value) :
                  C1Case(value, a, b, xv) => Reported(value) /\ ~Reported(xv)
        /\ \A i \in 1..Len(result), j \in 1..Len(result) :
              i # j /\ Len(result[i]) = Len(result[j]) =>
                  \A r \in Range(result[i]), m \in Range(result[j]) :
                      ~ProperDescendant(r.path, m.path)

C1_Witness ==
    /\ ReduceDone
    /\ \E value \in Buckets, xv \in Buckets :
          /\ \E a \in Range(value), b \in Range(value) : C1Case(value, a, b, xv)
          /\ xv[1].descendant_number > 0
          /\ xv[1].disk_size >= min_size
          /\ min_size > 0

\* C2 (threshold filter): when list_duplicates returns, a bucket of two or
\* more records whose first record is smaller than min_size is not in the
\* result, and a bucket of two or more non-empty records of exactly min_size,
\* one of which has no duplicated parent, is in the result.
C2_Threshold ==
    ReduceDone =>
        \A value \in Buckets :
            Len(value) >= 2 =>
                /\ value[1].disk_size < min_size => ~Reported(value)
                /\ (/\ value[1].disk_size = min_size
                    /\ value[1].descendant_number > 0
                    /\ \E r \in Range(value) : ~HasDupParent(r)) => Reported(value)

C2_Witness ==
    /\ ReduceDone
    /\ min_size > 0
    /\ \E value \in Buckets :
          /\ Len(value) >= 2
          /\ value[1].disk_size = min_size
          /\ \E r \in Range(value) : ~HasDupParent(r)
    /\ \E value \in Buckets :
          /\ Len(value) >= 2
          /\ value[1].descendant_number > 0
          /\ value[1].disk_size < min_size

\* C3 (empty directories): every group list_duplicates has accepted so far,
\* and every group main has printed, has at least two members and a first
\* record with descendants.
C3_NoEmptyGroup ==
    \A g \in Range(result) \cup UNION {Range(output[i]) : i \in 1..Len(output)} :
        Len(g) >= 2 /\ g[1].descendant_number > 0

C3_Witness ==
    /\ ReduceDone
    /\ min_size = 0
    /\ \E value \in Buckets : Len(value) >= 3 /\ value[1].descendant_number = 0

\* The calls of check_inode that presented an identity not presented before.
FirstPresentation(i) == \A j \in 1..(i - 1) : guard_log[j].id # guard_log[i].id

\* A sub-directory that was not retained has no record, and its parent's
\* record counts the retained entries alone.
PrunedAddsNothing ==
    \A r \in Records :
        \A c \in Children(r.path) :
            FilePath(c, 0) \notin kept =>
                /\ r.descendant_number = ExpectedDescendants(r.path)
                /\ r.disk_size = ExpectedSize(r.path)
                /\ Len(r.children_hashes) =
                       Cardinality(KeptSubdirs(r.path)) + Cardinality(KeptFiles(r.path))
                /\ \A q \in Records : q.path # c

\* C4 (inode guard): check_inode returns true exactly when the physical
\* directory (device and inode) is presented for the first time in the run,
\* and a sub-directory it returned false for is not walked and adds nothing
\* to its parent's record.
C4_GuardIdempotent ==
    /\ \A i \in 1..Len(guard_log) : guard_log[i].ret = FirstPresentation(i)
    /\ PrunedAddsNothing

\* C9 (device and inode): check_inode returns false only for a physical
\* directory presented before; two directories with one inode number on
\* different devices both get true.
C9_DeviceAndInode ==
    /\ \A i \in 1..Len(guard_log) :
          ~guard_log[i].ret => \E j \in 1..(i - 1) : guard_log[j].id = guard_log[i].id
    /\ \A i \in 1..Len(guard_log), j \in 1..Len(guard_log) :
          /\ guard_log[i].id[2] = guard_log[j].id[2]
          /\ guard_log[i].id[1] # guard_log[j].id[1]
          => guard_log[i].ret /\ guard_log[j].ret

\* C5 (bottom-up aggregation): every record crawl_directory returned has
\* descendant_number = its retained files + for each retained sub-directory
\* 1 + that sub-directory's descendants, and disk_size = the bytes of the
\* files beneath it through retained sub-directories.
C5_Aggregation ==
    \A r \in Records :
        /\ r.descendant_number = ExpectedDescendants(r.path)
        /\ r.disk_size = ExpectedSize(r.path)

C5_Witness ==
    \E r \in Records :
        /\ r.descendant_number >= 4
        /\ r.disk_size >= 2
        /\ KeptFiles(r.path) # {}
        /\ \E c \in KeptSubdirs(r.path) : KeptSubdirs(c) # {}

\* C6 (one walk per physical directory): across the whole invocation
\* crawl_directory runs at most once on a physical directory.
C6_WalkedOnce ==
    \A i \in 1..Len(walks), j \in 1..Len(walks) :
        i # j => ident[walks[i]] # ident[walks[j]]

\* C7 (fatal metadata, recoverable enumeration): a failed metadata read
\* aborts the run where it happens: no directory being walked gets a
\* record, list_duplicates is not called, nothing is printed for the root,
\* and no step follows; an entry that fails to enumerate is skipped and
\* aborts nothing, and a run that ends without a failed metadata read has
\* printed the groups of every root.
C7_FatalMetadata ==
    /\ meta_failed # {} <=> pc = "aborted"
    /\ pc = "aborted" =>
          /\ stack # <<>>
          /\ \A k \in 1..Len(stack) : \A r \in Records : r.path # stack[k].root
          /\ vect_of_key_and_entries = <<>> /\ result = <<>>
          /\ Len(output) = root_idx - 1
          /\ ~ENABLED Next
    /\ \A e \in unreadable : FilePath(e.node, e.i) \notin kept
    /\ pc = "done" => Len(output) = Len(roots)

C7_Witness ==
    /\ pc = "aborted"
    /\ enum_errors > 0
    /\ Len(stack) > 1

\* The accounting when singleton buckets prime nothing (WithSingletons
\* FALSE) or prime their children once (TRUE).
ExpectedCount(h, WithSingletons) ==
    SumOver({i \in 1..(idx - 1) : WithSingletons \/ Len(vect_of_key_and_entries[i].value) >= 2},
            [i \in 1..(idx - 1) |->
                 Len(vect_of_key_and_entries[i].value)
                 * Occurrences(h, vect_of_key_and_entries[i].value[1].children_hashes)])

AllChildHashes ==
    UNION {Range(vect_of_key_and_entries[i].value[1].children_hashes) :
               i \in 1..Len(vect_of_key_and_entries)}

\* C8 as claimed (singleton priming): every bucket processed so far, the
\* singletons included, has added its length to the count of each child
\* fingerprint of its first record.
C8_SingletonPrimes ==
    pc = "reduce" =>
        \A h \in AllChildHashes : Lookup(already_found_hashes, h, 0) = ExpectedCount(h, TRUE)

\* C8 as amended: a bucket of one record is not reported and primes nothing:
\* the counts come from the buckets of two or more records alone, and a
\* bucket of two or more records that qualifies and has no record with a
\* duplicated parent is in the result.
C8_SingletonSkipped ==
    /\ pc = "reduce" =>
          /\ \A h \in AllChildHashes :
                Lookup(already_found_hashes, h, 0) = ExpectedCount(h, FALSE)
          /\ \A g \in Range(result) : Len(g) # 1
    /\ ReduceDone =>
          \A v \in Buckets :
              (/\ Len(v) >= 2
               /\ v[1].descendant_number > 0
               /\ v[1].disk_size >= min_size
               /\ \A r \in Range(v) : ~HasDupParent(r))
              => Reported(v)

C8_Witness ==
    /\ pc = "reduce"
    /\ \E i \in 1..(idx - 1) :
          /\ Len(vect_of_key_and_entries[i].value) = 1
          /\ \E h \in Range(vect_of_key_and_entries[i].value[1].children_hashes) :
                /\ h \notin DOMAIN already_found_hashes
                /\ \E v \in Buckets : Len(v) >= 2 /\ hash(v[1]) = h /\ Reported(v)

\* C10 (no false suppression): when list_duplicates reaches a bucket, the
\* count of its fingerprint is the number of its records with a duplicated
\* parent, at most its length; and when list_duplicates returns, every
\* record of a bucket that qualifies and is not in the result lies beneath a
\* member of a group that is.
C10_NoFalseSuppression ==
    /\ pc = "reduce" /\ idx <= Len(vect_of_key_and_entries) =>
          LET e == vect_of_key_and_entries[idx]
              count == Lookup(already_found_hashes, e.key, 0)
          IN /\ count <= Len(e.value)
             /\ count = Cardinality({i \in 1..Len(e.value) : HasDupParent(e.value[i])})
    /\ ReduceDone =>
          \A v \in Buckets :
              (/\ Len(v) >= 2
               /\ v[1].descendant_number > 0
               /\ v[1].disk_size >= min_size
               /\ ~Reported(v))
              => \A r \in Range(v) :
                     \E g \in Range(result) : \E m \in Range(g) :
                         ProperDescendant(r.path, m.path)

C10_Witness ==
    /\ ReduceDone
    /\ \E v \in Buckets :
          /\ Len(v) >= 2
          /\ v[1].descendant_number > 0
          /\ v[1].disk_size >= min_size
          /\ min_size > 0
          /\ ~Reported(v)

====
